---- MODULE Spec2Model ----
(***************************************************************************)
(* Model of the contract similarity engine,                                *)
(* src/src/classes/analysis/SolidityComparator.py.                         *)
(*                                                                         *)
(* Scores are Python floats in the source; they are modelled as exact      *)
(* rationals [n, d] in lowest terms with d > 0.                            *)
(***************************************************************************)
EXTENDS Integers, Sequences, FiniteSets, TLC

----------------------------------------------------------------------------
(* Bounds of the model *)

MaxNodes == 3
MaxEdges == 2
MaxAttrs == 2
MaxFuncs == 2
MaxContracts == 3
MaxFaults == 1
MaxDirFiles == 2
MaxRuns == 2
MaxTextLen == 3
MaxRetryLimit == 3
MaxLogs == 2

----------------------------------------------------------------------------
(* Exact rational arithmetic standing for float arithmetic *)

Abs(x) == IF x < 0 THEN 0 - x ELSE x

RECURSIVE GCD(_, _)
GCD(a, b) == IF b = 0 THEN a ELSE GCD(b, a % b)

Rat(n, d) ==
    LET g == GCD(Abs(n), Abs(d))
        s == IF d < 0 THEN 0 - 1 ELSE 1
    IN  [n |-> (s * n) \div g, d |-> (s * d) \div g]

Zero == [n |-> 0, d |-> 1]
One == [n |-> 1, d |-> 1]

RAdd(x, y) == Rat(x.n * y.d + y.n * x.d, x.d * y.d)
RSub(x, y) == Rat(x.n * y.d - y.n * x.d, x.d * y.d)
RDivInt(x, k) == Rat(x.n, x.d * k)
RLe(x, y) == x.n * y.d <= y.n * x.d
InUnit(x) == RLe(Zero, x) /\ RLe(x, One)

Max(a, b) == IF a >= b THEN a ELSE b

----------------------------------------------------------------------------
(* Control flow graphs and their conversion to directed graphs *)

Pairs(n) == {e \in (1..n) \X (1..n) : e[1] # e[2]}

CFGsOfOrder(n) ==
    {[nodes |-> 1..n, succ |-> E] :
        E \in {S \in SUBSET Pairs(n) : Cardinality(S) <= MaxEdges}}

CFGs == UNION {CFGsOfOrder(n) : n \in 0..MaxNodes}

\* str(node): the text of a cfg node
str(v) == <<"node", v>>

\* cfg_to_networkx: every cfg node becomes a graph node with its text as
\* label attribute, every successor
\* edge of a cfg node becomes an edge (add_edge also adds its endpoint).
cfg_to_networkx(cfg) ==
    LET E == {e \in cfg.succ : e[1] \in cfg.nodes}
        V == cfg.nodes \cup {e[2] : e \in E}
    IN  [V |-> V, E |-> E,
         label |-> [v \in V |-> IF v \in cfg.nodes THEN str(v) ELSE <<>>]]

\* timeout of nx.graph_edit_distance(g1, g2): the default, no limit
GedTimeout == "None"

\* DiGraph.size(): the number of edges
size(g) == Cardinality(g.E)

Injections(A, B) ==
    {f \in [A -> B] : \A x, y \in A : x # y => f[x] # f[y]}

SetMin(S) == CHOOSE x \in S : \A y \in S : x <= y

EditCostMatchingLabels(s, l, f) ==
    LET kept == {e \in s.E : <<f[e[1]], f[e[2]]>> \in l.E}
    IN  (Cardinality(l.V) - Cardinality(s.V))
        + Cardinality({v \in s.V : s.label[v] # l.label[f[v]]})
        + (Cardinality(s.E) - Cardinality(kept))
        + (Cardinality(l.E) - Cardinality(kept))

\* Cost of the edit path that maps every node of the smaller graph s
\* into the larger graph l by f: the unmapped nodes of l are inserted,
\* the edges of s without an image edge are deleted, the edges of l
\* that are no image are inserted; substitutions cost nothing.
EditCost(s, l, f) ==
    LET kept == {e \in s.E : <<f[e[1]], f[e[2]]>> \in l.E}
    IN  (Cardinality(l.V) - Cardinality(s.V))
        + (Cardinality(s.E) - Cardinality(kept))
        + (Cardinality(l.E) - Cardinality(kept))

\* nx.graph_edit_distance with its default costs (node and edge
\* insertion and deletion 1, substitution 0): the cheapest edit path.
graph_edit_distance(ga, gb) ==
    LET s == IF Cardinality(ga.V) <= Cardinality(gb.V) THEN ga ELSE gb
        l == IF Cardinality(ga.V) <= Cardinality(gb.V) THEN gb ELSE ga
    IN  SetMin({EditCost(s, l, f) : f \in Injections(s.V, l.V)})

\* A scorer that normalises by the larger node count
cfg_similarity_by_order(cfg1, cfg2, raises) ==
    LET g1 == cfg_to_networkx(cfg1)
        g2 == cfg_to_networkx(cfg2)
        distance == graph_edit_distance(g1, g2)
        max_distance == Max(Cardinality(g1.V), Cardinality(g2.V))
    IN  IF raises THEN Zero
        ELSE IF max_distance = 0 THEN One
        ELSE RSub(One, Rat(distance, max_distance))

\* A scorer that scores two graphs without edges 0.0
cfg_similarity_vacuous_zero(cfg1, cfg2, raises) ==
    LET g1 == cfg_to_networkx(cfg1)
        g2 == cfg_to_networkx(cfg2)
        distance == graph_edit_distance(g1, g2)
        max_distance == Max(size(g1), size(g2))
    IN  IF raises THEN Zero
        ELSE IF max_distance = 0 THEN Zero
        ELSE RSub(One, Rat(distance, max_distance))

\* cfg_similarity; raises says whether the distance computation raises.
cfg_similarity_zero_distance_test(cfg1, cfg2, raises) ==
    LET g1 == cfg_to_networkx(cfg1)
        g2 == cfg_to_networkx(cfg2)
        distance == graph_edit_distance(g1, g2)
        max_distance == Max(size(g1), size(g2))
    IN  IF raises THEN Zero
        ELSE IF distance = 0 THEN One
        ELSE IF max_distance = 0 THEN Zero
        ELSE RSub(One, Rat(distance, max_distance))

cfg_similarity_raise_scores_one(cfg1, cfg2, raises) ==
    LET g1 == cfg_to_networkx(cfg1)
        g2 == cfg_to_networkx(cfg2)
        distance == graph_edit_distance(g1, g2)
        max_distance == Max(size(g1), size(g2))
    IN  IF raises THEN One
        ELSE IF max_distance = 0 THEN One
        ELSE RSub(One, Rat(distance, max_distance))

cfg_similarity(cfg1, cfg2, raises) ==
    LET g1 == cfg_to_networkx(cfg1)
        g2 == cfg_to_networkx(cfg2)
        distance == graph_edit_distance(g1, g2)
        max_distance == Max(size(g1), size(g2))
    IN  IF raises THEN Zero
        ELSE IF max_distance = 0 THEN One
        ELSE RSub(One, Rat(distance, max_distance))

----------------------------------------------------------------------------
(* Syntax trees and their canonical serialisation *)

\* An AST is a Python dict: a sequence of <<key, value>> attributes in
\* insertion order, the keys pairwise distinct. Values are integers.
Keys == <<"a", "b">>
AstValues == {1, 12, 21}

KeyRank(k) == CHOOSE r \in 1..Len(Keys) : Keys[r] = k

RECURSIVE SeqsUpTo(_, _)
SeqsUpTo(S, n) ==
    IF n = 0 THEN {<<>>}
    ELSE LET shorter == SeqsUpTo(S, n - 1)
         IN  shorter \cup {Append(q, x) : q \in shorter, x \in S}

Range(q) == {q[x] : x \in 1..Len(q)}

ASTs ==
    {t \in SeqsUpTo(Range(Keys) \X AstValues, MaxAttrs) :
        \A x, y \in 1..Len(t) : x # y => t[x][1] # t[y][1]}

\* Decimal digits of a positive integer, as characters
Digit == <<"0", "1", "2", "3", "4", "5", "6", "7", "8", "9">>

RECURSIVE Digits(_)
Digits(v) ==
    IF v < 10 THEN <<Digit[v + 1]>>
    ELSE Digits(v \div 10) \o <<Digit[(v % 10) + 1]>>

SortedItemsAsGiven(t) == t

\* sort_keys=True: the attributes in increasing key order
RECURSIVE SortedItems(_)
SortedItems(t) ==
    IF t = <<>> THEN <<>>
    ELSE LET m == CHOOSE x \in 1..Len(t) :
                    \A y \in 1..Len(t) : KeyRank(t[x][1]) <= KeyRank(t[y][1])
             rest == [y \in 1..(Len(t) - 1) |-> IF y < m THEN t[y] ELSE t[y + 1]]
         IN  <<t[m]>> \o SortedItems(rest)

RECURSIVE JoinItems(_)
JoinItems(items) ==
    IF items = <<>> THEN <<>>
    ELSE LET item == <<"\"", items[1][1], "\"", ":", " ">> \o Digits(items[1][2])
         IN  IF Len(items) = 1 THEN item
             ELSE item \o <<",", " ">> \o JoinItems(Tail(items))

\* json.dumps(ast, sort_keys=True), the text as a sequence of characters
json_dumps(t) == <<"{">> \o JoinItems(SortedItems(t)) \o <<"}">>

----------------------------------------------------------------------------
(* difflib.SequenceMatcher(None, a, b).ratio()                            *)
(* isjunk is None and autojunk keeps its default True: in a text b of     *)
(* 200 or more elements, the elements that occur more than len(b) // 100  *)
(* + 1 times are "popular" and are left out of the index b2j.             *)
(* Positions are 0-based and ranges half-open as in difflib.              *)

AutojunkMinLen == 200
AutojunkDivisor == 100

\* The popular elements of b (__chain_b)
Popular(b) ==
    IF Len(b) >= AutojunkMinLen
    THEN LET ntest == (Len(b) \div AutojunkDivisor) + 1
         IN  {e \in Range(b) :
                Cardinality({x \in 1..Len(b) : b[x] = e}) > ntest}
    ELSE {}

\* Length of the common run of a and b that ends at a[i], b[j], lies
\* inside the window and has no element of skip in it (the j2len table of
\* find_longest_match, whose entries come from b2j).
RunLen(a, b, alo, blo, i, j, skip) ==
    LET limit == Max(0, 1 + (IF i - alo < j - blo THEN i - alo ELSE j - blo))
        Same(t) == a[i - t + 1] = b[j - t + 1] /\ b[j - t + 1] \notin skip
    IN  CHOOSE k \in 0..limit :
            /\ k = limit \/ ~Same(k)
            /\ \A t \in 0..(k - 1) : Same(t)

\* Length of the common run of a and b that starts at a[i], b[j] and lies
\* inside the window
RunAhead(a, b, ahi, bhi, i, j) ==
    LET limit == Max(0, IF ahi - i < bhi - j THEN ahi - i ELSE bhi - j)
        Same(t) == a[i + t + 1] = b[j + t + 1]
    IN  CHOOSE k \in 0..limit :
            /\ k = limit \/ ~Same(k)
            /\ \A t \in 0..(k - 1) : Same(t)

\* The scan of find_longest_match over the elements b2j indexes: the
\* longest common block of a[alo:ahi] and b[blo:bhi] made of such
\* elements; of the longest, the one found first by the scan over a and,
\* for one position of a, over the positions of b in increasing order.
LongestIndexed(a, b, alo, ahi, blo, bhi, skip) ==
    LET ends == {e \in (alo..(ahi - 1)) \X (blo..(bhi - 1)) :
                    a[e[1] + 1] = b[e[2] + 1] /\ b[e[2] + 1] \notin skip}
        runs == {<<RunLen(a, b, alo, blo, e[1], e[2], skip), e[1], e[2]>> :
                    e \in ends}
        bestsize == CHOOSE k \in {r[1] : r \in runs} :
                        \A r \in runs : r[1] <= k
        longest == {r \in runs : r[1] = bestsize}
        best == CHOOSE r \in longest :
                    \A o \in longest :
                        \/ r[2] < o[2]
                        \/ r[2] = o[2] /\ r[3] <= o[3]
    IN  IF ends = {} THEN [i |-> alo, j |-> blo, size |-> 0]
        ELSE [i |-> best[2] - bestsize + 1,
              j |-> best[3] - bestsize + 1,
              size |-> bestsize]

\* find_longest_match: the block found by the scan, extended to the left
\* and to the right as long as the elements of a and b are equal (no
\* element is junk; the popular ones are only missing from the scan).
find_longest_match(a, b, alo, ahi, blo, bhi) ==
    CHOOSE m \in
        UNION {{[i |-> found.i - back, j |-> found.j - back,
                 size |-> back + found.size + ahead] :
                    back \in {RunLen(a, b, alo, blo,
                                     found.i - 1, found.j - 1, {})},
                    ahead \in {RunAhead(a, b, ahi, bhi,
                                        found.i + found.size,
                                        found.j + found.size)}} :
               found \in {LongestIndexed(a, b, alo, ahi, blo, bhi,
                                         Popular(b))}} : TRUE

\* get_matching_blocks, summed: the block found in the window, then the
\* blocks of the parts to its left and to its right.
RECURSIVE MatchTotal(_, _, _, _, _, _)
MatchTotal(a, b, alo, ahi, blo, bhi) ==
    LET m == find_longest_match(a, b, alo, ahi, blo, bhi)
    IN  IF m.size = 0 THEN 0
        ELSE m.size
             + (IF alo < m.i /\ blo < m.j
                THEN MatchTotal(a, b, alo, m.i, blo, m.j) ELSE 0)
             + (IF m.i + m.size < ahi /\ m.j + m.size < bhi
                THEN MatchTotal(a, b, m.i + m.size, ahi, m.j + m.size, bhi)
                ELSE 0)

ratio(a, b) ==
    LET matches == MatchTotal(a, b, 0, Len(a), 0, Len(b))
        length == Len(a) + Len(b)
    IN  IF length = 0 THEN One ELSE Rat(2 * matches, length)

ast_similarity(ast1, ast2) ==
    LET ast_str1 == json_dumps(ast1)
        ast_str2 == json_dumps(ast2)
    IN  ratio(ast_str1, ast_str2)

----------------------------------------------------------------------------
(* compute_similarity *)

\* The index pairs of the cross product of two CFG sequences, and the
\* k-th pair in the order of the nested loops (cfgs1 outer, cfgs2 inner).
CrossIndex(cfgs1, cfgs2) == (1..Len(cfgs1)) \X (1..Len(cfgs2))

NthPair(cfgs2, k) ==
    <<((k - 1) \div Len(cfgs2)) + 1, ((k - 1) % Len(cfgs2)) + 1>>

\* cfg_sim_total after the first k calls of cfg_similarity; raisesAt is
\* the set of index pairs whose distance computation raises.
RECURSIVE CfgSimTotal(_, _, _, _)
CfgSimTotal(cfgs1, cfgs2, raisesAt, k) ==
    IF k = 0 THEN Zero
    ELSE LET p == NthPair(cfgs2, k)
         IN  RAdd(CfgSimTotal(cfgs1, cfgs2, raisesAt, k - 1),
                  cfg_similarity(cfgs1[p[1]], cfgs2[p[2]], p \in raisesAt))

CfgSimPerFunction(cfgs1, cfgs2, raisesAt) ==
    LET count == Len(cfgs1) * Len(cfgs2)
    IN  IF count > 0
        THEN RDivInt(CfgSimTotal(cfgs1, cfgs2, raisesAt, count), Len(cfgs1))
        ELSE One

\* cfg_sim: the average over all CFG pairs, 1.0 when there is none
CfgSim(cfgs1, cfgs2, raisesAt) ==
    LET count == Len(cfgs1) * Len(cfgs2)
    IN  IF count > 0
        THEN RDivInt(CfgSimTotal(cfgs1, cfgs2, raisesAt, count), count)
        ELSE One

compute_similarity_sum(ast1, ast2, cfgs1, cfgs2, raisesAt) ==
    LET ast_sim == ast_similarity(ast1, ast2)
        cfg_sim == CfgSim(cfgs1, cfgs2, raisesAt)
    IN  RAdd(ast_sim, cfg_sim)

compute_similarity(ast1, ast2, cfgs1, cfgs2, raisesAt) ==
    LET ast_sim == ast_similarity(ast1, ast2)
        cfg_sim == CfgSim(cfgs1, cfgs2, raisesAt)
    IN  RDivInt(RAdd(ast_sim, cfg_sim), 2)

\* The distance computations that raise during one call: none, one, or all
RaiseChoices(cfgs1, cfgs2) ==
    {{}} \cup {{p} : p \in CrossIndex(cfgs1, cfgs2)}
         \cup {CrossIndex(cfgs1, cfgs2)}

----------------------------------------------------------------------------
(* Sample artifacts *)

Entry == [nodes |-> 1..1, succ |-> {}]
Straight == [nodes |-> 1..2, succ |-> {<<1, 2>>}]
Loop == [nodes |-> 1..2, succ |-> {<<1, 2>>, <<2, 1>>}]
SampleCFGs == {Entry, Straight, Loop}

CfgSeqs == SeqsUpTo(SampleCFGs, MaxFuncs)

SampleASTs ==
    { <<<<"a", 12>>>>,
      <<<<"a", 21>>, <<"b", 21>>>>,
      <<<<"b", 21>>, <<"a", 21>>>>,
      <<<<"b", 1>>>> }

\* What the extractor yields for the file at each position of the
\* folder when it succeeds: files 1 and 2 are copies of each other,
\* file 3 declares no function.
Catalog ==
    << [ast |-> <<<<"a", 21>>, <<"b", 21>>>>, cfgs |-> <<Straight, Entry>>],
       [ast |-> <<<<"a", 21>>, <<"b", 21>>>>, cfgs |-> <<Straight, Entry>>],
       [ast |-> <<<<"b", 1>>>>, cfgs |-> <<>>],
       [ast |-> <<<<"a", 12>>>>, cfgs |-> <<Loop>>] >>

FileSource(f) == Catalog[((f - 1) % Len(Catalog)) + 1]

Files == 1..MaxContracts

\* "ok": both extractions succeed; "bad": the file does not parse, both
\* extractions raise; "cfgbad": the AST is extracted, the CFG extraction raises.
Kinds == {"ok", "bad", "cfgbad"}

----------------------------------------------------------------------------
VARIABLES
    gpc,        \* position of the graph scorer: "in" before, "out" after the call
    gcfg1,      \* first argument of cfg_similarity
    gcfg2,      \* second argument of cfg_similarity
    graised,    \* whether the edit distance computation raised
    gout,       \* value returned by cfg_similarity
    gtimeout,   \* the timeout the distance computation was given
    tpc,        \* position of the tree scorer: "in" before, "out" after the call
    tast1,      \* first argument of ast_similarity
    tast2,      \* second argument of ast_similarity
    tout,       \* value returned by ast_similarity
    spc,        \* position of compute_similarity: "in" before, "out" after
    sargs,      \* its arguments [ast1, ast2, cfgs1, cfgs2]
    sraised,    \* the index pairs whose distance computation raised
    sout,       \* value returned by compute_similarity
    contracts,  \* self.contracts: the discovered files, in discovery order
    results,    \* self.results
    kind,       \* how the extractor behaves on each file
    pc,         \* compare_contracts: "ready", "comparing", "done"
    i,          \* index of the outer loop (0-based)
    j,          \* index of the inner loop (0-based)
    astCalls,   \* number of extract_ast calls per file
    cfgCalls,   \* number of extract_cfg calls per file
    astFailed,  \* files with an extract_ast call that returned {}
    cfgFailed,  \* files with an extract_cfg call that raised
    faults,     \* number of transient failures so far
    last,       \* what the last pass through the loop body did
    visited,    \* the index pairs (i, j) the loop body has been run for
    matrix,     \* similarity_matrix of plot_similarity_heatmap
    invocations, \* number of calls of compare_contracts so far
    dpc,        \* the script: "new" before the comparator is built
    rootKind,   \* folder_path is "missing", a "file" or a "dir"
    tree,       \* the directory tree under folder_path
    paths,      \* the paths returned by _get_contract_files
    rpc,        \* position of SequenceMatcher.ratio: "in" before, "out" after
    ra,         \* first text given to SequenceMatcher
    rb,         \* second text given to SequenceMatcher
    rout,       \* value returned by ratio()
    fpc,        \* position of a fetch: "calling", "returned", "raised"
    fmethod,    \* the fetch method that was called
    retry_limit, \* self.retry_limit
    retry_count, \* retry_count of the innermost call
    foutcomes,  \* what each request so far met, in order
    fresult,    \* the value the fetch returned
    request_count \* rate_limiter.request_count

gvars == <<gpc, gcfg1, gcfg2, graised, gout, gtimeout>>
tvars == <<tpc, tast1, tast2, tout>>
svars == <<spc, sargs, sraised, sout>>
cvars == <<contracts, results, kind, pc, i, j, astCalls, cfgCalls,
           astFailed, cfgFailed, faults, last, visited, matrix, invocations>>
dvars == <<dpc, rootKind, tree, paths>>
rvars == <<rpc, ra, rb, rout>>
fvars == <<fpc, fmethod, retry_limit, retry_count, foutcomes, fresult,
           request_count>>
vars == <<gvars, tvars, svars, cvars, dvars, rvars, fvars>>

NoArgs == [ast1 |-> <<>>, ast2 |-> <<>>, cfgs1 |-> <<>>, cfgs2 |-> <<>>]
NoPass == [i |-> 0, j |-> 0, ast1 |-> FALSE, cfgs1 |-> FALSE, ast2 |-> FALSE,
           cfgs2 |-> FALSE, raised |-> FALSE, appended |-> FALSE]
NoTree == [files |-> <<>>, dirs |-> <<>>]

GraphIdle ==
    /\ gpc = "idle"
    /\ gcfg1 = [nodes |-> {}, succ |-> {}]
    /\ gcfg2 = [nodes |-> {}, succ |-> {}]
    /\ graised = FALSE
    /\ gout = Zero
    /\ gtimeout = "unset"

TreeIdle ==
    /\ tpc = "idle"
    /\ tast1 = <<>>
    /\ tast2 = <<>>
    /\ tout = Zero

SimIdle ==
    /\ spc = "idle"
    /\ sargs = NoArgs
    /\ sraised = {}
    /\ sout = Zero

ComparatorIdle ==
    /\ contracts = <<>>
    /\ results = <<>>
    /\ kind = [f \in Files |-> "ok"]
    /\ pc = "idle"
    /\ i = 0
    /\ j = 0
    /\ astCalls = [f \in Files |-> 0]
    /\ cfgCalls = [f \in Files |-> 0]
    /\ astFailed = {}
    /\ cfgFailed = {}
    /\ faults = 0
    /\ last = NoPass
    /\ visited = <<>>
    /\ matrix = <<>>
    /\ invocations = 0

ScriptIdle ==
    /\ dpc = "idle"
    /\ rootKind = "dir"
    /\ tree = NoTree
    /\ paths = <<>>

NoResult == [kind |-> "unset", value |-> <<>>]

RatioIdle ==
    /\ rpc = "idle"
    /\ ra = <<>>
    /\ rb = <<>>
    /\ rout = Zero

FetchIdle ==
    /\ fpc = "idle"
    /\ fmethod = "none"
    /\ retry_limit = 0
    /\ retry_count = 0
    /\ foutcomes = <<>>
    /\ fresult = NoResult
    /\ request_count = 0

\* ---- the graph scorer on its own ----

InitCfg ==
    /\ gpc = "in"
    /\ gcfg1 \in CFGs
    /\ gcfg2 \in CFGs
    /\ graised = FALSE
    /\ gout = Zero
    /\ gtimeout = "unset"
    /\ TreeIdle /\ SimIdle /\ ComparatorIdle /\ ScriptIdle
    /\ RatioIdle /\ FetchIdle

CallCfgSimilarity ==
    /\ gpc = "in"
    /\ \E raises \in BOOLEAN :
        /\ graised' = raises
        /\ gout' = cfg_similarity(gcfg1, gcfg2, raises)
    /\ gtimeout' = GedTimeout
    /\ gpc' = "out"
    /\ UNCHANGED <<gcfg1, gcfg2, tvars, svars, cvars, dvars, rvars, fvars>>

NextCfg == CallCfgSimilarity

SpecCfg == InitCfg /\ [][NextCfg]_vars

\* ---- the tree scorer on its own ----

InitAst ==
    /\ tpc = "in"
    /\ tast1 \in ASTs
    /\ tast2 \in ASTs
    /\ tout = Zero
    /\ GraphIdle /\ SimIdle /\ ComparatorIdle /\ ScriptIdle
    /\ RatioIdle /\ FetchIdle

CallAstSimilarity ==
    /\ tpc = "in"
    /\ tout' = ast_similarity(tast1, tast2)
    /\ tpc' = "out"
    /\ UNCHANGED <<tast1, tast2, gvars, svars, cvars, dvars, rvars, fvars>>

NextAst == CallAstSimilarity

SpecAst == InitAst /\ [][NextAst]_vars

\* ---- the text matcher on its own ----

\* Texts as sequences of symbols. The short ones are below the length at
\* which difflib looks for popular elements; in the two long ones every
\* symbol occurs four times, and Rotated is LongText moved by one place.
SymbolPeriod == 50
LongText == [x \in 1..AutojunkMinLen |-> ((x - 1) % SymbolPeriod) + 1]
Rotated == [x \in 1..AutojunkMinLen |-> (x % SymbolPeriod) + 1]
ShortTexts == SeqsUpTo({1, 2}, MaxTextLen)
Texts == ShortTexts \cup {LongText, Rotated}

InitRatio ==
    /\ rpc = "in"
    /\ ra \in Texts
    /\ rb \in Texts
    /\ rout = Zero
    /\ GraphIdle /\ TreeIdle /\ SimIdle /\ ComparatorIdle /\ ScriptIdle
    /\ FetchIdle

CallRatio ==
    /\ rpc = "in"
    /\ rout' = ratio(ra, rb)
    /\ rpc' = "out"
    /\ UNCHANGED <<ra, rb, gvars, tvars, svars, cvars, dvars, fvars>>

NextRatio == CallRatio

SpecRatio == InitRatio /\ [][NextRatio]_vars

\* ---- compute_similarity on its own ----

InitSim ==
    /\ spc = "in"
    /\ sargs \in [ast1 : SampleASTs, ast2 : SampleASTs,
                  cfgs1 : CfgSeqs, cfgs2 : CfgSeqs]
    /\ sraised = {}
    /\ sout = Zero
    /\ GraphIdle /\ TreeIdle /\ ComparatorIdle /\ ScriptIdle
    /\ RatioIdle /\ FetchIdle

CallComputeSimilarity ==
    /\ spc = "in"
    /\ \E raisesAt \in RaiseChoices(sargs.cfgs1, sargs.cfgs2) :
        /\ sraised' = raisesAt
        /\ sout' = compute_similarity(sargs.ast1, sargs.ast2,
                                      sargs.cfgs1, sargs.cfgs2, raisesAt)
    /\ spc' = "out"
    /\ UNCHANGED <<sargs, gvars, tvars, cvars, dvars, rvars, fvars>>

NextSim == CallComputeSimilarity

SpecSim == InitSim /\ [][NextSim]_vars

\* ---- the comparator: compare_contracts over the discovered files ----

\* extract_ast: the file's AST, or the empty dict when Slither raises
\* (the file does not parse, or the call fails this time).
extract_ast_stale(f, fails) ==
    IF kind[f] = "bad" \/ fails THEN <<>>
    ELSE IF results # <<>>
         THEN FileSource(results[Len(results)].contract_1).ast
         ELSE FileSource(f).ast

extract_ast_needs_functions(f, fails) ==
    IF kind[f] = "bad" \/ fails \/ FileSource(f).cfgs = <<>>
    THEN <<>>
    ELSE FileSource(f).ast

extract_ast(f, fails) ==
    IF kind[f] = "bad" \/ fails THEN <<>> ELSE FileSource(f).ast

\* extract_cfg: the file's CFGs, or the empty list when the extraction raises
extract_cfg(f, fails) ==
    IF kind[f] \in {"bad", "cfgbad"} \/ fails THEN <<>> ELSE FileSource(f).cfgs

\* truth value of a dict in a condition
Truthy(ast) == ast # <<>>

BothExtractedFirstOnly(ast1, ast2) == Truthy(ast1)

\* A comparator that scores the pair as soon as one AST was extracted
BothExtractedEither(ast1, ast2) == Truthy(ast1) \/ Truthy(ast2)

\* `if ast1 and ast2`: the pair is scored only when both ASTs were extracted
BothExtracted(ast1, ast2) == Truthy(ast1) /\ Truthy(ast2)

Count(b) == IF b THEN 1 ELSE 0

Init ==
    /\ \E n \in 0..MaxContracts : contracts = [x \in 1..n |-> x]
    /\ kind \in [Files -> Kinds]
    /\ \A f \in Files : f > Len(contracts) => kind[f] = "ok"
    /\ results = <<>>
    /\ pc = "ready"
    /\ i = 0
    /\ j = 0
    /\ astCalls = [f \in Files |-> 0]
    /\ cfgCalls = [f \in Files |-> 0]
    /\ astFailed = {}
    /\ cfgFailed = {}
    /\ faults = 0
    /\ last = NoPass
    /\ visited = <<>>
    /\ matrix = <<>>
    /\ invocations = 0
    /\ GraphIdle /\ TreeIdle /\ SimIdle /\ ScriptIdle
    /\ RatioIdle /\ FetchIdle

InnerStartAtSelf(a) == a

\* range(i + 1, len(self.contracts)): the first j of the inner loop
InnerStart(a) == a + 1

\* The loop position reached from outer index a and inner index b over n
\* contracts: the next pair for which the body runs, or the end of the loops.
RECURSIVE LoopFrom(_, _, _)
LoopFrom(a, b, n) ==
    IF a >= n THEN [i |-> a, j |-> b, pc |-> "done"]
    ELSE IF b < n THEN [i |-> a, j |-> b, pc |-> "comparing"]
    ELSE LoopFrom(a + 1, InnerStart(a + 1), n)

AfterPassAborting(a, b, n, raises) ==
    IF raises THEN [i |-> a, j |-> b, pc |-> "done"]
    ELSE LoopFrom(a, b + 1, n)

\* The position after the pass for (a, b); raises: the pass ended in the
\* except branch, which only prints.
AfterPass(a, b, n, raises) == LoopFrom(a, b + 1, n)

\* Entering the loops of compare_contracts
StartCompare ==
    /\ pc = "ready"
    /\ LET to == LoopFrom(0, InnerStart(0), Len(contracts))
       IN  /\ pc' = to.pc
           /\ i' = to.i
           /\ j' = to.j
    /\ invocations' = invocations + 1
    /\ UNCHANGED <<contracts, results, kind, astCalls, cfgCalls,
                   astFailed, cfgFailed, faults, last, visited, matrix,
                   gvars, tvars, svars, dvars, rvars, fvars>>

\* The body of the inner loop for the pair (i, j), then the step to the
\* next pair. fa1, fc1, fa2, fc2: an extraction call fails this time;
\* raises: compute_similarity raises; raisesAt: the CFG pairs whose
\* distance computation raises.
ComparePairWith(fa1, fc1, fa2, fc2, raises, raisesAt) ==
    LET c1 == contracts[i + 1]
        c2 == contracts[j + 1]
        ast1 == extract_ast(c1, fa1)
        cfgs1 == extract_cfg(c1, fc1)
        ast2 == extract_ast(c2, fa2)
        cfgs2 == extract_cfg(c2, fc2)
        scored == BothExtracted(ast1, ast2)
        appended == scored /\ ~raises
        n == Len(contracts)
    IN  /\ fa1 => kind[c1] # "bad"
        /\ fc1 => kind[c1] = "ok"
        /\ fa2 => kind[c2] # "bad"
        /\ fc2 => kind[c2] = "ok"
        /\ raises => scored
        /\ raisesAt # {} => appended
        /\ faults' = faults + Count(fa1) + Count(fc1) + Count(fa2) + Count(fc2)
                            + Count(raises) + Count(raisesAt # {})
        /\ faults' <= MaxFaults
        /\ astCalls' = [astCalls EXCEPT ![c1] = @ + 1, ![c2] = @ + 1]
        /\ cfgCalls' = [cfgCalls EXCEPT ![c1] = @ + 1, ![c2] = @ + 1]
        /\ astFailed' = astFailed \cup {c \in {c1} : ~Truthy(ast1)}
                                  \cup {c \in {c2} : ~Truthy(ast2)}
        /\ cfgFailed' = cfgFailed
                \cup {c \in {c1} : kind[c1] # "ok" \/ fc1}
                \cup {c \in {c2} : kind[c2] # "ok" \/ fc2}
        /\ results' =
            IF appended
            THEN Append(results,
                    [contract_1 |-> c1, contract_2 |-> c2,
                     similarity |->
                        compute_similarity(ast1, ast2, cfgs1, cfgs2, raisesAt)])
            ELSE results
        /\ last' = [i |-> i, j |-> j,
                    ast1 |-> Truthy(ast1), cfgs1 |-> ~(kind[c1] # "ok" \/ fc1),
                    ast2 |-> Truthy(ast2), cfgs2 |-> ~(kind[c2] # "ok" \/ fc2),
                    raised |-> raises, appended |-> appended]
        /\ visited' = Append(visited, <<i, j>>)
        /\ LET to == AfterPass(i, j, n, raises)
           IN  /\ pc' = to.pc
               /\ i' = to.i
               /\ j' = to.j
        /\ UNCHANGED <<contracts, kind, matrix, invocations, gvars, tvars, svars, dvars, rvars, fvars>>

ComparePair ==
    /\ pc = "comparing"
    /\ \E fa1, fc1, fa2, fc2, raises \in BOOLEAN :
        \E raisesAt \in RaiseChoices(extract_cfg(contracts[i + 1], fc1),
                                     extract_cfg(contracts[j + 1], fc2)) :
            ComparePairWith(fa1, fc1, fa2, fc2, raises, raisesAt)

\* contract_index: the position of a contract in self.contracts
contract_index(c) ==
    CHOOSE x \in 1..Len(contracts) :
        /\ contracts[x] = c
        /\ \A y \in 1..Len(contracts) : contracts[y] = c => y <= x

RECURSIVE MatrixAfterBlankZero(_)
MatrixAfterBlankZero(k) ==
    IF k = 0
    THEN [a \in 1..Len(contracts) |->
            [b \in 1..Len(contracts) |-> IF a = b THEN One ELSE Zero]]
    ELSE LET m == MatrixAfterBlankZero(k - 1)
             a == contract_index(results[k].contract_1)
             b == contract_index(results[k].contract_2)
             v == results[k].similarity
             upper == [m EXCEPT ![a][b] = v]
         IN  [upper EXCEPT ![b][a] = v]

RECURSIVE MatrixAfterUpperOnly(_)
MatrixAfterUpperOnly(k) ==
    IF k = 0
    THEN [a \in 1..Len(contracts) |-> [b \in 1..Len(contracts) |-> One]]
    ELSE LET m == MatrixAfterUpperOnly(k - 1)
             a == contract_index(results[k].contract_1)
             b == contract_index(results[k].contract_2)
             v == results[k].similarity
         IN  [m EXCEPT ![a][b] = v]

\* similarity_matrix after the first k results have been entered
RECURSIVE MatrixAfter(_)
MatrixAfter(k) ==
    IF k = 0
    THEN [a \in 1..Len(contracts) |-> [b \in 1..Len(contracts) |-> One]]
    ELSE LET m == MatrixAfter(k - 1)
             a == contract_index(results[k].contract_1)
             b == contract_index(results[k].contract_2)
             v == results[k].similarity
             upper == [m EXCEPT ![a][b] = v]
         IN  [upper EXCEPT ![b][a] = v]

\* plot_similarity_heatmap: the matrix that is drawn
PlotHeatmap ==
    /\ pc = "done"
    /\ matrix' = MatrixAfter(Len(results))
    /\ pc' = "plotted"
    /\ UNCHANGED <<contracts, results, kind, i, j, astCalls, cfgCalls,
                   astFailed, cfgFailed, faults, last, visited, invocations,
                   gvars, tvars, svars, dvars, rvars, fvars>>

Next == StartCompare \/ ComparePair \/ PlotHeatmap

Spec == Init /\ [][Next]_vars

\* ---- compare_contracts called again on the same comparator ----

CompareAgainReset ==
    /\ pc = "done"
    /\ invocations < MaxRuns
    /\ pc' = "ready"
    /\ results' = <<>>
    /\ UNCHANGED <<contracts, kind, i, j, astCalls, cfgCalls,
                   astFailed, cfgFailed, faults, last, visited, matrix,
                   invocations, gvars, tvars, svars, dvars, rvars, fvars>>

\* compare_contracts has returned and the caller calls it again; nothing
\* of the comparator is touched between the two calls
CompareAgain ==
    /\ pc = "done"
    /\ invocations < MaxRuns
    /\ pc' = "ready"
    /\ UNCHANGED <<contracts, results, kind, i, j, astCalls, cfgCalls,
                   astFailed, cfgFailed, faults, last, visited, matrix,
                   invocations, gvars, tvars, svars, dvars, rvars, fvars>>

NextAgain == StartCompare \/ ComparePair \/ CompareAgain

SpecAgain == Init /\ [][NextAgain]_vars

\* ---- the Etherscan fetchers: one fetch with its retries ----

\* config.rate_limit
rate_limit_per_second == 5

Methods ==
    {"EtherscanFetcher.fetch_logs", "EtherscanFetcher.fetch_verified_contract",
     "EtherscanLogsFetcher.fetch_logs"}

\* What a request can meet: requests.get raises a RequestException, the
\* answer has status '1', has status '0', has status '1' and an empty
\* SourceCode, or has no status at all
Outcomes(m) ==
    {"network_error", "status_1", "status_0", "no_status"}
        \cup (IF m = "EtherscanFetcher.fetch_verified_contract"
              THEN {"no_source"} ELSE {})

\* timeStamp texts, decimal and hexadecimal
TimeStamps == {<<"9">>, <<"1", "2">>, <<"0", "x", "1", "0">>}
LogLists == SeqsUpTo([timeStamp : TimeStamps], MaxLogs)

DigitValue(c) == CHOOSE d \in 0..9 : Digit[d + 1] = c

\* int(text, base)
RECURSIVE ParseInt(_, _)
ParseInt(text, base) ==
    IF text = <<>> THEN 0
    ELSE ParseInt(SubSeq(text, 1, Len(text) - 1), base) * base
         + DigitValue(text[Len(text)])

parse_timestamp(ts) ==
    IF Len(ts) >= 2 /\ SubSeq(ts, 1, 2) = <<"0", "x">>
    THEN ParseInt(SubSeq(ts, 3, Len(ts)), 16)
    ELSE ParseInt(ts, 10)

\* logs.sort(key=..., reverse=True): latest first, equal keys in their
\* original order
RECURSIVE SortedLatestFirst(_)
SortedLatestFirst(logs) ==
    IF logs = <<>> THEN <<>>
    ELSE LET Key(x) == parse_timestamp(logs[x].timeStamp)
             m == CHOOSE x \in 1..Len(logs) :
                    /\ \A y \in 1..Len(logs) : Key(y) <= Key(x)
                    /\ \A y \in 1..(x - 1) : Key(y) < Key(x)
             rest == [y \in 1..(Len(logs) - 1) |->
                        IF y < m THEN logs[y] ELSE logs[y + 1]]
         IN  <<logs[m]>> \o SortedLatestFirst(rest)

\* The value returned when there is nothing: [] for logs, None for a contract
EmptyResult(m) ==
    IF m = "EtherscanFetcher.fetch_verified_contract"
    THEN [kind |-> "None", value |-> <<>>]
    ELSE [kind |-> "list", value |-> <<>>]

\* The value returned for an answer with status '1'
FoundResult(m, logs) ==
    IF m = "EtherscanFetcher.fetch_verified_contract"
    THEN [kind |-> "contract", value |-> <<"SourceCode">>]
    ELSE [kind |-> "list", value |-> SortedLatestFirst(logs)]

\* RateLimiter.rate_limit: the count after the call; elapsed: a second or
\* more has passed since last_request_time
rate_limit(count, elapsed) ==
    IF count >= rate_limit_per_second /\ ~elapsed THEN 0
    ELSE IF elapsed THEN 0
    ELSE count

ShouldRetryInclusive(count, limit) == count <= limit

\* `if retry_count < self.retry_limit`
ShouldRetry(count, limit) == count < limit

InitFetch ==
    /\ fpc = "calling"
    /\ fmethod \in Methods
    /\ retry_limit \in 0..MaxRetryLimit
    /\ retry_count = 0
    /\ foutcomes = <<>>
    /\ fresult = NoResult
    /\ request_count \in {0, rate_limit_per_second}
    /\ GraphIdle /\ TreeIdle /\ SimIdle /\ ComparatorIdle /\ ScriptIdle
    /\ RatioIdle

\* One activation of the fetch method: the rate limiter, the request, and
\* either the return of a value, an exception that is not caught, or the
\* recursive call with retry_count + 1
Request ==
    /\ fpc = "calling"
    /\ \E outcome \in Outcomes(fmethod), elapsed \in BOOLEAN, logs \in LogLists :
        LET limited == rate_limit(request_count, elapsed)
        IN  /\ outcome # "status_1" => logs = <<>>
            /\ fmethod = "EtherscanFetcher.fetch_verified_contract"
                    => logs = <<>>
            /\ foutcomes' = Append(foutcomes, outcome)
            /\ request_count' =
                    IF outcome = "network_error" THEN limited ELSE limited + 1
            /\ IF outcome = "network_error"
               THEN IF ShouldRetry(retry_count, retry_limit)
                    THEN /\ retry_count' = retry_count + 1
                         /\ fpc' = "calling"
                         /\ fresult' = fresult
                    ELSE /\ retry_count' = retry_count
                         /\ fpc' = "returned"
                         /\ fresult' = EmptyResult(fmethod)
               ELSE /\ retry_count' = retry_count
                    /\ IF outcome = "status_1"
                       THEN /\ fpc' = "returned"
                            /\ fresult' = FoundResult(fmethod, logs)
                       ELSE IF /\ outcome = "no_status"
                               /\ fmethod # "EtherscanLogsFetcher.fetch_logs"
                       THEN /\ fpc' = "raised"
                            /\ fresult' = fresult
                       ELSE /\ fpc' = "returned"
                            /\ fresult' = EmptyResult(fmethod)
    /\ UNCHANGED <<fmethod, retry_limit, gvars, tvars, svars, cvars, dvars,
                   rvars>>

NextFetch == Request

SpecFetch == InitFetch /\ [][NextFetch]_vars

\* ---- discovery and the run of the script ----

\* File names, character by character
SolName == <<"A", ".", "s", "o", "l">>
TxtName == <<"B", ".", "t", "x", "t">>
BakName == <<"C", ".", "s", "o", "l", ".", "b">>
Names == {SolName, TxtName, BakName}
SolSuffix == <<".", "s", "o", "l">>

\* The files of one directory, in the order os.walk lists them
Listings ==
    {l \in SeqsUpTo(Names, MaxDirFiles) :
        \A x, y \in 1..Len(l) : x # y => l[x] # l[y]}

\* folder_path as a directory: its own files and at most one subdirectory
Trees ==
    {[files |-> l, dirs |-> d] :
        l \in Listings, d \in {<<>>} \cup {<<m>> : m \in Listings}}

contains(s, suffix) ==
    \E k \in 1..Len(s) :
        /\ k + Len(suffix) - 1 <= Len(s)
        /\ SubSeq(s, k, k + Len(suffix) - 1) = suffix

\* str.endswith
endswith(s, suffix) ==
    /\ Len(s) >= Len(suffix)
    /\ SubSeq(s, Len(s) - Len(suffix) + 1, Len(s)) = suffix

\* os.walk(folder_path): (root, files) of every directory, top first;
\* nothing at all when folder_path is missing or is not a directory
walk(rk, t) ==
    IF rk # "dir" THEN <<>>
    ELSE <<[root |-> <<>>, files |-> t.files]>>
         \o [k \in 1..Len(t.dirs) |-> [root |-> <<k>>, files |-> t.dirs[k]]]

\* os.path.join(root, file) for the files of one directory that end in .sol
RECURSIVE JoinMatching(_, _, _)
JoinMatching(root, files, k) ==
    IF k = 0 THEN <<>>
    ELSE LET before == JoinMatching(root, files, k - 1)
         IN  IF endswith(files[k], SolSuffix)
             THEN Append(before, [root |-> root, file |-> files[k]])
             ELSE before

RECURSIVE ContractFilesUpTo(_, _)
ContractFilesUpTo(w, k) ==
    IF k = 0 THEN <<>>
    ELSE ContractFilesUpTo(w, k - 1)
         \o JoinMatching(w[k].root, w[k].files, Len(w[k].files))

_get_contract_files(rk, t) ==
    LET w == walk(rk, t) IN ContractFilesUpTo(w, Len(w))

InitRun ==
    /\ rootKind \in {"missing", "file", "dir"}
    /\ tree \in IF rootKind = "dir" THEN Trees ELSE {NoTree}
    /\ dpc = "new"
    /\ paths = <<>>
    /\ contracts = <<>>
    /\ kind \in [Files -> Kinds]
    /\ \A f \in Files :
          f > Len(_get_contract_files(rootKind, tree)) => kind[f] = "ok"
    /\ pc = "unbuilt"
    /\ results = <<>>
    /\ i = 0
    /\ j = 0
    /\ astCalls = [f \in Files |-> 0]
    /\ cfgCalls = [f \in Files |-> 0]
    /\ astFailed = {}
    /\ cfgFailed = {}
    /\ faults = 0
    /\ last = NoPass
    /\ visited = <<>>
    /\ matrix = <<>>
    /\ invocations = 0
    /\ GraphIdle /\ TreeIdle /\ SimIdle
    /\ RatioIdle /\ FetchIdle

\* main() and the __main__ block: a folder_path that is not a directory is
\* answered with a printed message and a normal return
MainRejects ==
    /\ dpc = "new"
    /\ rootKind # "dir"
    /\ dpc' = "rejected"
    /\ UNCHANGED <<rootKind, tree, paths, cvars, gvars, tvars, svars,
                   rvars, fvars>>

\* SolidityComparator(folder_path): contracts[x] is the file paths[x]
Construct ==
    /\ dpc = "new"
    /\ paths' = _get_contract_files(rootKind, tree)
    /\ contracts' = [x \in 1..Len(paths') |-> x]
    /\ results' = <<>>
    /\ dpc' = "constructed"
    /\ pc' = "ready"
    /\ UNCHANGED <<rootKind, tree, kind, i, j, astCalls, cfgCalls, astFailed,
                   cfgFailed, faults, last, visited, matrix, invocations,
                   gvars, tvars, svars, rvars, fvars>>

\* The end of run(): the table and the heatmap when there are results, the
\* "No Solidity files found or comparison failed." message when there are none
RunReport ==
    /\ pc = "done"
    /\ IF results # <<>>
       THEN /\ matrix' = MatrixAfter(Len(results))
            /\ pc' = "plotted"
       ELSE /\ matrix' = matrix
            /\ pc' = "empty"
    /\ UNCHANGED <<contracts, results, kind, i, j, astCalls, cfgCalls,
                   astFailed, cfgFailed, faults, last, visited, invocations,
                   gvars, tvars, svars, dvars, rvars, fvars>>

NextRun == MainRejects \/ Construct \/ StartCompare \/ ComparePair \/ RunReport

SpecRun == InitRun /\ [][NextRun]_vars

----------------------------------------------------------------------------
(* Properties *)

Named == {results[x].contract_1 : x \in 1..Len(results)}
            \cup {results[x].contract_2 : x \in 1..Len(results)}

Choose2(k) == (k * (k - 1)) \div 2

\* The scores computed by the finished call of compute_similarity
SAst == ast_similarity(sargs.ast1, sargs.ast2)
SCfg == CfgSim(sargs.cfgs1, sargs.cfgs2, sraised)
SPairScores ==
    {cfg_similarity(sargs.cfgs1[p[1]], sargs.cfgs2[p[2]], p \in sraised) :
        p \in CrossIndex(sargs.cfgs1, sargs.cfgs2)}

\* The graphs and the distance of the finished call of cfg_similarity
G1 == cfg_to_networkx(gcfg1)
G2 == cfg_to_networkx(gcfg2)
GDistance == graph_edit_distance(G1, G2)

\* C1: every score of a scored pair lies in [0.0, 1.0]: each per-graph
\* cfg_similarity value, the aggregate cfg score, the ast score and the
\* combined similarity.
C1_ScoresInUnitInterval ==
    spc = "out" =>
        /\ \A v \in SPairScores : InUnit(v)
        /\ InUnit(SCfg)
        /\ InUnit(SAst)
        /\ InUnit(sout)

\* C2: the combined score of (A, B) equals the combined score of (B, A):
\* swapping the two contracts (and with them the CFG pairs whose distance
\* computation raises) does not change what compute_similarity returns.
C2_CombinedSymmetric ==
    spc = "out" =>
        sout = compute_similarity(sargs.ast2, sargs.ast1,
                                  sargs.cfgs2, sargs.cfgs1,
                                  {<<p[2], p[1]>> : p \in sraised})

\* C3: comparing a contract with an identical copy (same AST, same CFG
\* sequence, no computation raising) gives ast score 1.0, cfg score 1.0
\* and combined score 1.0.
C3_Reflexive ==
    (/\ spc = "out"
     /\ sargs.ast1 = sargs.ast2
     /\ sargs.cfgs1 = sargs.cfgs2
     /\ sraised = {}) =>
        /\ SAst = One
        /\ SCfg = One
        /\ sout = One

\* C4: a contract whose AST extraction fails is in no result entry: no
\* entry names a file that does not parse, and a pass of the loop in
\* which an AST came back empty appends nothing.
C4_FailedAstExcluded ==
    /\ \A f \in Named : kind[f] # "bad"
    /\ last.appended => last.ast1 /\ last.ast2

C4_Witness ==
    /\ pc = "done"
    /\ Len(contracts) = 3
    /\ \E f \in Range(contracts) : kind[f] = "bad"
    /\ Len(results) = 1
    /\ ~last.appended /\ ~(last.ast1 /\ last.ast2)

\* C5: a contract whose CFG extraction raises is in no result entry: no
\* entry names a file whose CFG extraction raises, and a pass of the loop
\* in which a CFG extraction raised appends nothing.
C5_FailedCfgExcluded ==
    /\ \A f \in Named : kind[f] # "cfgbad"
    /\ last.appended => last.cfgs1 /\ last.cfgs2

\* C6: when compare_contracts is done, results has exactly k(k-1)/2
\* entries, k being the number of discovered contracts whose extraction
\* succeeded.
C6_ResultCount ==
    pc = "done" =>
        Len(results) =
            Choose2(Cardinality(Range(contracts) \ (astFailed \cup cfgFailed)))

\* C7: AST extraction and CFG extraction are each invoked at most once
\* per contract in a run (exactly once for every contract that is in a
\* pair); no contract is extracted again for a second pair.
C7_ExtractedOnce ==
    /\ \A f \in Files : astCalls[f] <= 1 /\ cfgCalls[f] <= 1
    /\ (pc = "done" /\ Len(contracts) >= 2) =>
            \A f \in Range(contracts) : astCalls[f] = 1 /\ cfgCalls[f] = 1

\* C8: the classification of a contract is terminal: no contract is both
\* named by a result entry and skipped in another pair because its own
\* AST extraction failed.
C8_ClassificationTerminal == Named \cap astFailed = {}

\* C9 as stated: for two graphs that are not both empty and whose distance
\* is computed without error, cfg_similarity returns
\* 1 - distance / max(size1, size2) with size the node count.
C9_NormalisedByNodeCount ==
    (/\ gpc = "out"
     /\ ~graised
     /\ G1.V \cup G2.V # {}) =>
        LET m == Max(Cardinality(G1.V), Cardinality(G2.V))
        IN  gout.n * m = gout.d * (m - GDistance)

\* C9 amended: for two graphs of which at least one has an edge and whose
\* distance is computed without error, cfg_similarity returns
\* 1 - distance / max(size1, size2) with size the edge count; for two
\* graphs without edges it returns 1.0.
C9_NormalisedByEdgeCount ==
    (gpc = "out" /\ ~graised) =>
        LET m == Max(Cardinality(G1.E), Cardinality(G2.E))
        IN  IF m > 0
            THEN gout.n * m = gout.d * (m - GDistance)
            ELSE gout.n = gout.d

C9_Witness ==
    /\ gpc = "out"
    /\ ~graised
    /\ Cardinality(G1.E) = 1
    /\ Cardinality(G2.E) = 2
    /\ Cardinality(G1.V) = 3
    /\ GDistance = 2
    /\ gout = Zero

RECURSIVE RSum(_, _)
RSum(f, S) ==
    IF S = {} THEN Zero
    ELSE LET x == CHOOSE y \in S : TRUE
         IN  RAdd(f[x], RSum(f, S \ {x}))

\* The score of every CFG pair of the finished call of compute_similarity,
\* and the cfg score the returned value contains
SPairScore ==
    [p \in CrossIndex(sargs.cfgs1, sargs.cfgs2) |->
        cfg_similarity(sargs.cfgs1[p[1]], sargs.cfgs2[p[2]], p \in sraised)]
SCfgReturned == RSub(RAdd(sout, sout), SAst)

\* C11: when the graph-edit-distance computation for a CFG pair raises,
\* cfg_similarity returns 0.0 for that pair; the call returns (it has an
\* output), so the exception does not reach the caller.
C11_RaiseScoresZero == (gpc = "out" /\ graised) => gout = Zero

\* The distance computation raised for two equal graphs with an edge, which
\* score 1.0 when it does not raise.
C11_Witness ==
    /\ gpc = "out"
    /\ graised
    /\ G1 = G2
    /\ size(G1) > 0
    /\ gout = Zero

\* C12: when a graph computation fails while a contract pair is scored, the
\* cfg score of that contract pair is 0.0.
C12_FailureZeroesPairScore ==
    (spc = "out" /\ sraised # {}) => SCfgReturned = Zero

\* C13: the cfg score of a contract pair is the arithmetic mean of
\* cfg_similarity over all |cfgs1| x |cfgs2| combinations of the two CFG
\* sequences, and exactly 1.0 when either sequence is empty.
C13_CfgScoreIsMean ==
    spc = "out" =>
        LET cross == CrossIndex(sargs.cfgs1, sargs.cfgs2)
        IN  IF Len(sargs.cfgs1) = 0 \/ Len(sargs.cfgs2) = 0
            THEN SCfgReturned = One
            ELSE SCfgReturned
                    = RDivInt(RSum(SPairScore, cross), Cardinality(cross))

\* Two functions on each side, with CFG pairs that score differently.
C13_Witness ==
    /\ spc = "out"
    /\ Len(sargs.cfgs1) = 2
    /\ Len(sargs.cfgs2) = 2
    /\ sraised = {}
    /\ Cardinality(SPairScores) >= 2

\* C14: the combined similarity of a scored pair is (ast_score + cfg_score)
\* / 2, with ast_score the tree similarity of the two ASTs and cfg_score the
\* aggregate CFG similarity of the two CFG sequences.
C14_CombinedIsHalfSum ==
    spc = "out" => RAdd(sout, sout) = RAdd(SAst, SCfg)

\* Different ASTs and different, non-empty CFG sequences, so that the two
\* scores differ.
C14_Witness ==
    /\ spc = "out"
    /\ SAst # SCfg
    /\ SAst # One
    /\ sargs.cfgs1 # <<>>
    /\ sargs.cfgs2 # <<>>
    /\ RAdd(sout, sout) = RAdd(SAst, SCfg)

\* The names of all files under folder_path
TreeNames ==
    Range(tree.files)
        \cup UNION {Range(tree.dirs[k]) : k \in 1..Len(tree.dirs)}

\* The index pairs of the result entries
RecordedPairs ==
    {<<contract_index(results[x].contract_1),
       contract_index(results[x].contract_2)>> : x \in 1..Len(results)}

\* The result entries for the contracts at positions a and b, in this order
EntriesFor(a, b) ==
    {x \in 1..Len(results) :
        /\ results[x].contract_1 = contracts[a]
        /\ results[x].contract_2 = contracts[b]}

Finished == pc \in {"done", "plotted", "empty"}

\* C15: discovery on a root path that does not exist or is not a directory
\* fails with a raised error: the construction of the comparator, which runs
\* the discovery, never returns for such a root.
C15_InvalidRootRaises == rootKind # "dir" => dpc # "constructed"

\* C16: when the root directory exists and holds no file that ends in .sol,
\* discovery returns the empty list, compare_contracts calls no extraction
\* and no scoring, results stays empty and the run ends without an error.
C16_NoMatchingFilesEmptyRun ==
    (dpc = "constructed" /\ rootKind = "dir" /\ SolName \notin TreeNames) =>
        /\ paths = <<>>
        /\ contracts = <<>>
        /\ results = <<>>
        /\ visited = <<>>
        /\ \A f \in Files : astCalls[f] = 0 /\ cfgCalls[f] = 0
        /\ pc \in {"ready", "done", "empty"}

\* A run over a directory and a subdirectory that hold files, none of them
\* ending in .sol, has ended with the message of the empty report.
C16_Witness ==
    /\ pc = "empty"
    /\ rootKind = "dir"
    /\ tree.files # <<>>
    /\ tree.dirs # <<>>
    /\ BakName \in TreeNames
    /\ SolName \notin TreeNames
    /\ contracts = <<>>
    /\ results = <<>>

\* C17: no error in a single comparison aborts the run: whatever failed or
\* raised in a pass, the loops go on to every later pair (when
\* compare_contracts has returned, the body has run for all n(n-1)/2 pairs),
\* and every step keeps the entries recorded so far.
C17_ErrorsDoNotAbort ==
    /\ [](Finished => Len(visited) = Choose2(Len(contracts)))
    /\ [](pc = "comparing" =>
            /\ Len(visited) < Choose2(Len(contracts))
            /\ last.raised => <<i, j>> # <<last.i, last.j>>)
    /\ [][/\ Len(results') >= Len(results)
          /\ SubSeq(results', 1, Len(results)) = results]_vars

\* Three parsable contracts, the scoring of the first pair raised, and the
\* two later pairs have their entries.
C17_Witness ==
    /\ pc = "done"
    /\ Len(contracts) = 3
    /\ \A f \in 1..3 : kind[f] = "ok"
    /\ astFailed = {}
    /\ RecordedPairs = {<<1, 3>>, <<2, 3>>}

\* C18: the similarity matrix built from the results has one row and one
\* column per discovered contract, is symmetric, and every diagonal entry
\* is exactly 1.0.
C18_MatrixSquareSymmetricUnitDiagonal ==
    pc = "plotted" =>
        LET idx == 1..Len(contracts)
        IN  /\ DOMAIN matrix = idx
            /\ \A a \in idx : DOMAIN matrix[a] = idx
            /\ \A a, b \in idx : matrix[a][b] = matrix[b][a]
            /\ \A a \in idx : matrix[a][a] = One

\* A matrix for three contracts with at least two entries of the results
\* written into it, one of them different from 1.0.
C18_Witness ==
    /\ pc = "plotted"
    /\ Len(contracts) = 3
    /\ Len(results) >= 2
    /\ \E a, b \in 1..3 : matrix[a][b] # One

\* C19: one invocation of compare_contracts considers every unordered pair
\* of distinct contracts exactly once: the body runs for index pairs i < j,
\* never twice for the same pair, and for all of them by the time it
\* returns; each entry has contract_1 at a smaller index than contract_2,
\* and no pair has two entries, in the same or in the opposite order.
C19_EveryPairOnce ==
    LET idx == 1..Len(contracts)
    IN  /\ \A x \in 1..Len(visited) : visited[x][1] < visited[x][2]
        /\ \A x, y \in 1..Len(visited) : x # y => visited[x] # visited[y]
        /\ Finished =>
              Range(visited) = {p \in (0..Len(contracts) - 1)
                                        \X (0..Len(contracts) - 1) : p[1] < p[2]}
        /\ \A x \in 1..Len(results) :
              contract_index(results[x].contract_1)
                  < contract_index(results[x].contract_2)
        /\ \A a, b \in idx :
              Cardinality(EntriesFor(a, b) \cup EntriesFor(b, a)) <= 1

\* Three contracts, all three pairs recorded.
C19_Witness ==
    /\ pc = "done"
    /\ Len(contracts) = 3
    /\ Len(results) = 3
    /\ RecordedPairs = {<<1, 2>>, <<1, 3>>, <<2, 3>>}

\* C20: a contract with a usable AST and an empty CFG sequence is compared
\* like any other: in a run in which nothing failed transiently, it has an
\* entry with every other contract whose AST is extracted, and in every pass
\* in which both ASTs came back and the scoring did not raise an entry is
\* appended.
C20_EmptyCfgComparable ==
    /\ (Finished /\ faults = 0) =>
          \A a, b \in 1..Len(contracts) :
              (/\ a < b
               /\ kind[contracts[a]] = "ok"
               /\ kind[contracts[b]] = "ok"
               /\ \/ FileSource(contracts[a]).cfgs = <<>>
                  \/ FileSource(contracts[b]).cfgs = <<>>)
                  => EntriesFor(a, b) # {}
    /\ (last.ast1 /\ last.ast2 /\ ~last.raised) => last.appended

\* The third file has an AST and no function; it has its entries with the
\* two other contracts.
C20_Witness ==
    /\ pc = "done"
    /\ Len(contracts) = 3
    /\ kind[3] = "ok"
    /\ FileSource(3).ast # <<>>
    /\ FileSource(3).cfgs = <<>>
    /\ faults = 0
    /\ {<<1, 3>>, <<2, 3>>} \subseteq RecordedPairs

\* C21: the serialization does not depend on the order of the attribute
\* keys: two ASTs with the same attributes and values, listed in different
\* orders, give the same string and their ast score is 1.0.
C21_AttributeOrderIrrelevant ==
    (tpc = "out" /\ Range(tast1) = Range(tast2)) =>
        /\ json_dumps(tast1) = json_dumps(tast2)
        /\ tout = One

\* Two attributes, listed as a, b in one AST and as b, a in the other.
C21_Witness ==
    /\ tpc = "out"
    /\ Len(tast1) = 2
    /\ tast1 # tast2
    /\ Range(tast1) = Range(tast2)
    /\ tout = One

\* The total length of the blocks found by taking the longest common
\* substring of the two windows (of several, the earliest in a, then the
\* earliest in b) and decomposing the parts to its left and to its right.
RECURSIVE BlockTotal(_, _, _, _, _, _)
BlockTotal(a, b, alo, ahi, blo, bhi) ==
    LET m == LongestIndexed(a, b, alo, ahi, blo, bhi, {})
    IN  IF m.size = 0 THEN 0
        ELSE m.size
             + (IF alo < m.i /\ blo < m.j
                THEN BlockTotal(a, b, alo, m.i, blo, m.j) ELSE 0)
             + (IF m.i + m.size < ahi /\ m.j + m.size < bhi
                THEN BlockTotal(a, b, m.i + m.size, ahi, m.j + m.size, bhi)
                ELSE 0)

C23_DistanceComputationBounded == gpc = "out" => gtimeout # "None"

\* C25: cfg_similarity returns 1.0 whenever both graphs have no edge and the
\* distance computation does not raise, whatever their node counts, also
\* when the node counts differ and the edit distance is not zero.
C25_EdgeFreeGraphsScoreOne ==
    (gpc = "out" /\ ~graised /\ G1.E = {} /\ G2.E = {}) =>
        /\ gout = One
        /\ Cardinality(G1.V) # Cardinality(G2.V) => GDistance > 0

\* One node against three nodes, no edges: distance 2, score 1.0.
C25_Witness ==
    /\ gpc = "out"
    /\ ~graised
    /\ G1.E = {}
    /\ G2.E = {}
    /\ Cardinality(G1.V) = 1
    /\ Cardinality(G2.V) = 3
    /\ GDistance = 2
    /\ gout = One

\* The cfg with its nodes renamed by the permutation p
Relabel(cfg, p) ==
    [nodes |-> {p[v] : v \in cfg.nodes},
     succ |-> {<<p[e[1]], p[e[2]]>> : e \in cfg.succ}]

\* Two renamings that generate all of them: the rotation of the nodes 1..n
\* and the exchange of the nodes 1 and 2
Renamings(cfg) ==
    LET n == Cardinality(cfg.nodes)
    IN  {[v \in cfg.nodes |-> (v % n) + 1],
         [v \in cfg.nodes |-> IF n >= 2 /\ v <= 2 THEN 3 - v ELSE v]}

Isomorphic(ga, gb) ==
    /\ Cardinality(ga.V) = Cardinality(gb.V)
    /\ \E f \in Injections(ga.V, gb.V) :
          {<<f[e[1]], f[e[2]]>> : e \in ga.E} = gb.E

\* C26: cfg_similarity depends on the structure of the graphs only: two
\* isomorphic graphs with an edge score 1.0 whatever their nodes are called,
\* and renaming the nodes of either graph does not change the score.
C26_StructureOnly ==
    (gpc = "out" /\ ~graised) =>
        /\ (Isomorphic(G1, G2) /\ size(G1) > 0) => gout = One
        /\ \A p \in Renamings(gcfg2) :
              cfg_similarity(gcfg1, Relabel(gcfg2, p), FALSE) = gout
        /\ \A p \in Renamings(gcfg1) :
              cfg_similarity(Relabel(gcfg1, p), gcfg2, FALSE) = gout

\* Two different graphs on three nodes with one edge each, isomorphic, so
\* that every node mapping that keeps the edge changes a label.
C26_Witness ==
    /\ gpc = "out"
    /\ ~graised
    /\ Cardinality(G1.V) = 3
    /\ G1.E = {<<1, 2>>}
    /\ G2.E = {<<3, 1>>}
    /\ G1.label # G2.label \/ G1.E # G2.E
    /\ Isomorphic(G1, G2)
    /\ gout = One

\* The artifacts of a file when no call fails transiently
SteadyAst(f) == IF kind[f] = "bad" THEN <<>> ELSE FileSource(f).ast
SteadyCfgs(f) == IF kind[f] = "ok" THEN FileSource(f).cfgs ELSE <<>>

\* The score of two files computed from their own artifacts alone
SteadyScore(f, g) ==
    RDivInt(RAdd(ast_similarity(SteadyAst(f), SteadyAst(g)),
                 CfgSim(SteadyCfgs(f), SteadyCfgs(g), {})), 2)

\* The (pair, score) entries of results, as a set
ResultSet == Range(results)

C27_SkippedPairsShownAsOne ==
    pc = "plotted" =>
        LET idx == 1..Len(contracts)
        IN  /\ DOMAIN matrix = idx
            /\ \A a \in idx : DOMAIN matrix[a] = idx
            /\ \A a, b \in idx :
                  (a # b /\ EntriesFor(a, b) \cup EntriesFor(b, a) = {})
                      => matrix[a][b] = One

\* The first of three contracts does not parse: its cells hold 1.0 and the
\* cell of the one scored pair does not.
C27_Witness ==
    /\ pc = "plotted"
    /\ Len(contracts) = 3
    /\ kind[1] = "bad"
    /\ RecordedPairs = {<<2, 3>>}
    /\ matrix[1][2] = One
    /\ matrix[3][1] = One
    /\ matrix[2][3] # One

\* C28: compare_contracts only appends to results and leaves the contract
\* list alone, over any number of invocations: every step keeps the entries
\* there are, in their order, and after k invocations in which nothing
\* failed transiently results holds k entries for every pair of contracts
\* that both parse, and none for the other pairs.
C28_ResultsOnlyGrow ==
    /\ [][/\ contracts' = contracts
          /\ Len(results') >= Len(results)
          /\ SubSeq(results', 1, Len(results)) = results]_vars
    /\ []((pc = "done" /\ faults = 0) =>
            \A a, b \in 1..Len(contracts) :
                Cardinality(EntriesFor(a, b)) =
                    IF /\ a < b
                       /\ kind[contracts[a]] # "bad"
                       /\ kind[contracts[b]] # "bad"
                    THEN invocations
                    ELSE 0)

\* Two invocations over three parsable contracts: six entries.
C28_Witness ==
    /\ pc = "done"
    /\ invocations = 2
    /\ Len(contracts) = 3
    /\ faults = 0
    /\ Len(results) = 6
    /\ Cardinality(EntriesFor(1, 2)) = 2

\* C29: a pass for the pair (i, j) appends the entry of that pair when both
\* ASTs came back non-empty and computing the similarity did not raise; in
\* every other case it appends nothing and leaves results as it is.
C29_EntryIffExtractedAndScored ==
    [][pc = "comparing" =>
        IF last'.ast1 /\ last'.ast2 /\ ~last'.raised
        THEN /\ Len(results') = Len(results) + 1
             /\ SubSeq(results', 1, Len(results)) = results
             /\ results'[Len(results')].contract_1 = contracts[i + 1]
             /\ results'[Len(results')].contract_2 = contracts[j + 1]
             /\ last'.appended
        ELSE /\ results' = results
             /\ ~last'.appended]_vars

\* The last pass over three contracts raised while scoring; the entries of
\* the two earlier pairs are there and nothing was added for the third.
C29_Witness ==
    /\ pc = "done"
    /\ Len(contracts) = 3
    /\ last.raised
    /\ ~last.appended
    /\ RecordedPairs = {<<1, 2>>, <<1, 3>>}

AllNetworkErrors ==
    \A x \in 1..Len(foutcomes) : foutcomes[x] = "network_error"

\* C30: the retries of a fetch are bounded. retry_count goes up by one per
\* failed request, from 0 to retry_limit at most; when every request meets
\* a network error the fetch makes exactly retry_limit + 1 requests and
\* returns the empty result without raising; an answer whose status is not
\* '1' ends the fetch at once with the empty result.
C30_RetriesBounded ==
    /\ Len(foutcomes) <= retry_limit + 1
    /\ fpc = "calling" =>
          /\ retry_count = Len(foutcomes)
          /\ retry_count <= retry_limit
          /\ AllNetworkErrors
    /\ (fpc # "calling" /\ AllNetworkErrors) =>
          /\ fpc = "returned"
          /\ Len(foutcomes) = retry_limit + 1
          /\ fresult = EmptyResult(fmethod)
    /\ \A x \in 1..Len(foutcomes) :
          foutcomes[x] = "status_0" =>
              /\ x = Len(foutcomes)
              /\ fpc = "returned"
              /\ fresult = EmptyResult(fmethod)

\* fetch_verified_contract with retry_limit 3 met four network errors and
\* returned None.
C30_Witness ==
    /\ fpc = "returned"
    /\ fmethod = "EtherscanFetcher.fetch_verified_contract"
    /\ retry_limit = 3
    /\ Len(foutcomes) = 4
    /\ AllNetworkErrors
    /\ fresult.kind = "None"

====
